---- MODULE Spec2Model ----
(***************************************************************************)
(* Model of the two algorithmic cores of the roleplay-chat backend:        *)
(*   - fitMessagesToBudget / truncateString   (functions/api/chat.ts)      *)
(*   - onRequestPost / retrieveUntilDone      (functions/api/video.ts)     *)
(***************************************************************************)
EXTENDS Integers, Sequences, FiniteSets, TLC

\* ------------------------------------------------------------------------
\* Bounds of the model
\* ------------------------------------------------------------------------
MaxLen == 2
MaxMsgs == 4
MaxChars == 5

\* ------------------------------------------------------------------------
\* Strings are sequences of characters; "ELLIPSIS" stands for the single
\* character U+2026 appended by truncateString.
\* ------------------------------------------------------------------------
Ellipsis == "ELLIPSIS"

Alphabet == <<"a", "b", "c", "d">>

Text(n) == [i \in 1..n |-> Alphabet[((i - 1) % Len(Alphabet)) + 1]]

Contents == { Text(n) : n \in 0..MaxLen }

Roles == {"system", "user", "assistant"}

Messages == [role : Roles, content : Contents]

MessageLists == UNION { [1..n -> Messages] : n \in 1..MaxMsgs }

Budgets == -1..MaxChars

Max(a, b) == IF a >= b THEN a ELSE b

\* ------------------------------------------------------------------------
\* chat.ts: truncateString
\* ------------------------------------------------------------------------
\* variant: the ellipsis is appended to maxLen kept characters
truncateString_NoRoomForEllipsis(s, maxLen) ==
  IF maxLen <= 0 THEN <<>>
  ELSE IF Len(s) <= maxLen THEN s
  ELSE SubSeq(s, 1, maxLen) \o <<Ellipsis>>

\* variant: only a negative maxLen gives the empty string
truncateString_ZeroKeepsEllipsis(s, maxLen) ==
  IF maxLen < 0 THEN <<>>
  ELSE IF Len(s) <= maxLen THEN s
  ELSE SubSeq(s, 1, Max(0, maxLen - 1)) \o <<Ellipsis>>

\* variant: a string of exactly maxLen characters is cut as well
truncateString_CutsExactFit(s, maxLen) ==
  IF maxLen <= 0 THEN <<>>
  ELSE IF Len(s) < maxLen THEN s
  ELSE SubSeq(s, 1, Max(0, maxLen - 1)) \o <<Ellipsis>>

truncateString(s, maxLen) ==
  IF maxLen <= 0 THEN <<>>
  ELSE IF Len(s) <= maxLen THEN s
  ELSE SubSeq(s, 1, Max(0, maxLen - 1)) \o <<Ellipsis>>

\* chat.ts: sizeOf (local closure of fitMessagesToBudget)
RECURSIVE sizeOf(_)
sizeOf(arr) ==
  IF Len(arr) = 0 THEN 0
  ELSE Len(arr[1].content) + sizeOf(Tail(arr))

\* chat.ts: the body of the for-loop of fitMessagesToBudget, for one middle
\* message m: the candidate list with m inserted at insertIndex, accepted
\* when it fits.
\* variant: the size test looks at the list before the insertion
FitStep_TestsBeforeInsert(result, m, insertIndex, maxChars) ==
  LET entry == [role |-> m.role, content |-> m.content]
      candidate == SubSeq(result, 1, insertIndex) \o <<entry>>
                     \o SubSeq(result, insertIndex + 1, Len(result))
  IN IF sizeOf(result) <= maxChars THEN candidate ELSE result

\* variant: the entry is inserted right before the trailing message
FitStep_InsertsBeforeLast(result, m, insertIndex, maxChars) ==
  LET entry == [role |-> m.role, content |-> m.content]
      candidate == SubSeq(result, 1, Len(result) - 1) \o <<entry>>
                     \o SubSeq(result, Len(result), Len(result))
  IN IF sizeOf(candidate) <= maxChars THEN candidate ELSE result

\* variant: every message already in the list adds one character of room
FitStep_RoomGrowsWithCount(result, m, insertIndex, maxChars) ==
  LET entry == [role |-> m.role, content |-> m.content]
      candidate == SubSeq(result, 1, insertIndex) \o <<entry>>
                     \o SubSeq(result, insertIndex + 1, Len(result))
  IN IF sizeOf(candidate) <= maxChars + Len(result) - 1 THEN candidate
     ELSE result

\* variant: the size test is strict
FitStep_StrictTest(result, m, insertIndex, maxChars) ==
  LET entry == [role |-> m.role, content |-> m.content]
      candidate == SubSeq(result, 1, insertIndex) \o <<entry>>
                     \o SubSeq(result, insertIndex + 1, Len(result))
  IN IF sizeOf(candidate) < maxChars THEN candidate ELSE result

FitStep(result, m, insertIndex, maxChars) ==
  LET entry == [role |-> m.role, content |-> m.content]
      candidate == SubSeq(result, 1, insertIndex) \o <<entry>>
                     \o SubSeq(result, insertIndex + 1, Len(result))
  IN IF sizeOf(candidate) <= maxChars THEN candidate ELSE result

\* chat.ts: the for-loop of fitMessagesToBudget, i from middle.length-1 down
\* to 0 (here i from Len(middle) down to 1).
RECURSIVE FitLoop(_, _, _, _, _)
FitLoop(middle, i, result, insertIndex, maxChars) ==
  IF i = 0 THEN result
  ELSE FitLoop(middle, i - 1,
               FitStep(result, middle[i], insertIndex, maxChars),
               insertIndex, maxChars)

\* variant: the over-budget branch keeps the trailing message only
FitTruncate_DropsAnchor(hasSys, safeSys, safeLast, maxChars) ==
  << [role |-> safeLast.role,
      content |-> truncateString(safeLast.content, maxChars)] >>

\* variant: the over-budget branch cuts the anchor and keeps the trailing
\* message whole
FitTruncate_TruncatesAnchor(hasSys, safeSys, safeLast, maxChars) ==
  IF hasSys
    THEN << [role |-> "system",
             content |-> truncateString(safeSys.content,
                                        Max(0, maxChars - Len(safeLast.content)))],
            safeLast >>
    ELSE << [role |-> safeLast.role,
             content |-> truncateString(safeLast.content, maxChars)] >>

\* chat.ts: the over-budget branch of fitMessagesToBudget
FitTruncate(hasSys, safeSys, safeLast, maxChars) ==
  IF hasSys
    THEN << safeSys,
            [role |-> safeLast.role,
             content |-> truncateString(safeLast.content,
                                        Max(0, maxChars - Len(safeSys.content)))] >>
    ELSE << [role |-> safeLast.role,
             content |-> truncateString(safeLast.content, maxChars)] >>

\* chat.ts: fitMessagesToBudget
fitMessagesToBudget(messages, maxChars) ==
  IF Len(messages) = 0 THEN <<>>
  ELSE
    LET system == messages[1]
        last == messages[Len(messages)]
        hasSys == system.role = "system"
        middle == SubSeq(messages, IF hasSys THEN 2 ELSE 1, Len(messages) - 1)
        safeSys == [role |-> "system", content |-> system.content]
        safeLast == [role |-> last.role, content |-> last.content]
        result == IF hasSys THEN <<safeSys, safeLast>> ELSE <<safeLast>>
        insertIndex == IF hasSys THEN 1 ELSE 0
    IN IF sizeOf(result) > maxChars
         THEN FitTruncate(hasSys, safeSys, safeLast, maxChars)
         ELSE FitLoop(middle, Len(middle), result, insertIndex, maxChars)

\* ------------------------------------------------------------------------
\* video.ts: JavaScript values that reach the handler. A value is a string
\* or undefined; a number is carried by its String() form.
\* ------------------------------------------------------------------------
Undefined == [type |-> "undefined", str |-> ""]

JsString(s) == [type |-> "string", str |-> s]

JsNumber(s) == [type |-> "number", str |-> s]

\* String.prototype.trim on the strings of the model
trim(s) ==
  CASE s = " " -> ""
    [] s = " job1 " -> "job1"
    [] s = " m1 " -> "m1"
    [] s = " 10 " -> "10"
    [] s = " img " -> "img"
    [] OTHER -> s

\* String.prototype.toUpperCase on the status strings of the model
toUpperCase(s) ==
  CASE s = "processing" -> "PROCESSING"
    [] s = "queued" -> "QUEUED"
    [] s = "failed" -> "FAILED"
    [] s = "cancelled" -> "CANCELLED"
    [] s = "completed" -> "COMPLETED"
    [] OTHER -> s

\* typeof v === "string" && v.trim()
NonBlankString(v) == v.type = "string" /\ trim(v.str) # ""

\* String(s || "")
StringOrEmpty(v) == IF v.type = "undefined" THEN "" ELSE v.str

\* video.ts: isProcessingStatus
isProcessingStatus(s) ==
  LET v == toUpperCase(StringOrEmpty(s))
  IN v \in {"PROCESSING", "QUEUED", "PENDING", "STARTING", "RUNNING", "IN_PROGRESS"}

\* video.ts: isTerminalErrorStatus
isTerminalErrorStatus(s) ==
  LET v == toUpperCase(StringOrEmpty(s))
  IN v \in {"FAILED", "ERROR", "CANCELED", "CANCELLED"}

\* video.ts: the options passed to retrieveUntilDone by onRequestPost
maxWaitMs == 25000

pollEveryMs == 2000

DefaultModel == "grok-imagine-image-to-video"

\* granularity of the clock and bound on how long a fetch takes to settle
TickMs == pollEveryMs

MaxDelayTicks == 1

Delays == { d * TickMs : d \in 0..MaxDelayTicks }

\* number of inbound requests served one after the other
MaxRequests == 2

\* more retrieve calls than one invocation can make before its deadline
MaxCalls == maxWaitMs \div pollEveryMs + 2

\* ------------------------------------------------------------------------
\* Inbound request bodies, queue responses and retrieve responses
\* ------------------------------------------------------------------------
QueueIdInputs == {Undefined, JsString(" "), JsString("job1"), JsString(" job1 "),
                  JsString("job2")}

ModelInputs == {Undefined, JsString(" m1 ")}

DurationInputs == {Undefined, JsNumber("7"), JsString(" 10 ")}

\* body.image and body.image_url
ImageInputs ==
  { [image |-> Undefined, image_url |-> Undefined],
    [image |-> JsString(" img "), image_url |-> Undefined],
    [image |-> Undefined, image_url |-> JsString(" img ")] }

Request(k, q, m, d, i) ==
  [hasKey |-> k, queue_id |-> q, model |-> m, duration |-> d,
   image |-> i.image, image_url |-> i.image_url]

\* env and body of an inbound request: without the key; with a queue_id
\* (the image fields are not read); without a usable queue_id
Requests ==
  { Request(FALSE, Undefined, Undefined, Undefined,
            [image |-> Undefined, image_url |-> Undefined]) }
    \cup { Request(TRUE, q, m, d, [image |-> Undefined, image_url |-> Undefined]) :
           q \in {x \in QueueIdInputs : NonBlankString(x)},
           m \in ModelInputs, d \in {Undefined, JsNumber("7")} }
    \cup { Request(TRUE, q, m, d, i) :
           q \in {x \in QueueIdInputs : ~NonBlankString(x)},
           m \in ModelInputs, d \in DurationInputs, i \in ImageInputs }

\* what the fetch of /video/queue produces: it throws, or it resolves with
\* ok / not ok and a body whose queue_id is a string or absent
QueueResponses ==
  [threw : {TRUE}, ok : {FALSE}, queue_id : {Undefined}]
    \cup [threw : {FALSE}, ok : {FALSE}, queue_id : {Undefined}]
    \cup [threw : {FALSE}, ok : {TRUE},
          queue_id : {Undefined, JsString("job1"), JsString("job2")}]

ContentTypes == {"application/json", "application/json; charset=utf-8",
                 "video/webm; codecs=vp9", "application/octet-stream", ""}

ProcessingStatusValues == {JsString("processing"), JsString("QUEUED")}

FinalStatusValues == {Undefined, JsString("COMPLETED"), JsString("FAILED"),
                      JsString("cancelled")}

\* j?.video_url and j?.media_url of a JSON retrieve response
UrlFields ==
  { [video_url |-> Undefined, media_url |-> Undefined],
    [video_url |-> JsString("https://x/y.mp4"), media_url |-> Undefined],
    [video_url |-> Undefined, media_url |-> JsString("https://x/y.mp4")],
    [video_url |-> JsString("y.mp4"), media_url |-> Undefined] }

\* what the fetch of /video/retrieve produces: it throws, or it resolves
\* not ok, or ok with a JSON body, or ok with another content type
RetrieveResponses ==
  { [threw |-> TRUE, ok |-> FALSE, ct |-> "", status |-> Undefined,
     video_url |-> Undefined, media_url |-> Undefined],
    [threw |-> FALSE, ok |-> FALSE, ct |-> "", status |-> Undefined,
     video_url |-> Undefined, media_url |-> Undefined] }
    \cup { [threw |-> FALSE, ok |-> TRUE, ct |-> "application/json",
            status |-> st, video_url |-> u.video_url,
            media_url |-> u.media_url] :
            st \in FinalStatusValues, u \in UrlFields }
    \cup { [threw |-> FALSE, ok |-> TRUE, ct |-> "application/json",
            status |-> st, video_url |-> Undefined, media_url |-> Undefined] :
            st \in ProcessingStatusValues }
    \cup { [threw |-> FALSE, ok |-> TRUE, ct |-> "application/json",
            status |-> JsString("QUEUED"),
            video_url |-> JsString("https://x/y.mp4"),
            media_url |-> Undefined] }
    \cup { [threw |-> FALSE, ok |-> TRUE, ct |-> c, status |-> Undefined,
            video_url |-> Undefined, media_url |-> Undefined] :
            c \in ContentTypes \ {"application/json"} }

NoQueueResponse == [threw |-> FALSE, ok |-> FALSE, queue_id |-> JsString("none")]

NoRetrieveResponse ==
  [threw |-> FALSE, ok |-> FALSE, ct |-> "none", status |-> Undefined,
   video_url |-> Undefined, media_url |-> Undefined]

NoRequest ==
  [hasKey |-> FALSE, queue_id |-> JsString("none"), model |-> Undefined,
   duration |-> Undefined, image |-> Undefined, image_url |-> Undefined]

\* ct.includes("application/json")
IsJsonContentType(ct) ==
  ct \in {"application/json", "application/json; charset=utf-8"}

\* variant: the parameters of a video content type are kept
videoMime_KeepsParameters(ct) ==
  CASE ct = "video/webm; codecs=vp9" -> ct
    [] OTHER -> "video/mp4"

\* ct.startsWith("video/") ? ct.split(";")[0] : "video/mp4"
videoMime(ct) ==
  CASE ct = "video/webm; codecs=vp9" -> "video/webm"
    [] OTHER -> "video/mp4"

\* maybeUrl.startsWith("http")
startsWithHttp(s) == s = "https://x/y.mp4"

\* j?.video_url || j?.media_url
maybeUrl(r) ==
  IF r.video_url.type = "string" /\ r.video_url.str # ""
    THEN r.video_url ELSE r.media_url

\* ------------------------------------------------------------------------
\* HTTP responses of the handler
\* ------------------------------------------------------------------------
Reply(st, kind, qid, extra) ==
  [status |-> st, kind |-> kind, queue_id |-> qid, extra |-> extra]

NoReply == Reply(0, "none", "", "")

\* variant: the "still processing" response without the queue_id
DeadlineReply_WithoutId(queueId) == Reply(202, "PROCESSING", "", "")

\* video.ts: the response after the while loop of retrieveUntilDone
DeadlineReply(queueId) == Reply(202, "PROCESSING", queueId, "")

\* variant: the loop goes on for two more polls after the deadline
LoopCondition_GraceAfterDeadline(t, start) ==
  t - start < maxWaitMs + 2 * pollEveryMs

\* video.ts: while (Date.now() - started < maxWaitMs)
LoopCondition(t, start) == t - start < maxWaitMs

\* variant: the timer fires after half of the delay
sleep_HalfDelay(t, ms) == t + ms \div 2

\* variant: the timer fires at once
sleep_NoDelay(t, ms) == t

\* video.ts: sleep(ms) called at time t: the time at which it resolves
sleep(t, ms) == t + ms

\* variant: the fetch is not awaited, the loop goes round while it is pending
MayIssueRetrieve_NoAwait(pc) == pc \in {"loop", "retrieving"}

\* video.ts: the loop head is reached only after "await fetch" and the
\* classification of its response
MayIssueRetrieve(pc) == pc = "loop"

\* variant: a terminal failure status is polled again
RetrieveJson_FailureContinues(r, queueId) ==
  IF isProcessingStatus(r.status) \/ isTerminalErrorStatus(r.status)
    THEN [next |-> "sleep", reply |-> NoReply]
  ELSE IF maybeUrl(r).type = "string" /\ startsWithHttp(maybeUrl(r).str)
    THEN [next |-> "return",
          reply |-> Reply(200, "videoUrl", queueId, maybeUrl(r).str)]
  ELSE [next |-> "return",
        reply |-> Reply(502, "Venice retrieve returned unexpected JSON",
                        queueId, "")]

\* video.ts: the JSON branch of the loop body of retrieveUntilDone
RetrieveJson(r, queueId) ==
  IF isProcessingStatus(r.status)
    THEN [next |-> "sleep", reply |-> NoReply]
  ELSE IF maybeUrl(r).type = "string" /\ startsWithHttp(maybeUrl(r).str)
    THEN [next |-> "return",
          reply |-> Reply(200, "videoUrl", queueId, maybeUrl(r).str)]
  ELSE IF isTerminalErrorStatus(r.status)
    THEN [next |-> "return",
          reply |-> Reply(502, "Venice reported terminal failure", queueId, "")]
  ELSE [next |-> "return",
        reply |-> Reply(502, "Venice retrieve returned unexpected JSON",
                        queueId, "")]

\* variant: a non-2xx retrieve response is treated as transient
RetrieveStep_RetriesNonOk(r, queueId) ==
  IF r.threw
    THEN [next |-> "return",
          reply |-> Reply(502, "Fetch to Venice retrieve threw", queueId, "")]
  ELSE IF ~r.ok
    THEN [next |-> "sleep", reply |-> NoReply]
  ELSE IF IsJsonContentType(r.ct)
    THEN RetrieveJson(r, queueId)
  ELSE [next |-> "return",
        reply |-> Reply(200, "videoBytes", "", videoMime(r.ct))]

\* video.ts: one pass of the loop body of retrieveUntilDone once the fetch
\* has settled with r: either sleep and continue, or return a response.
RetrieveStep(r, queueId) ==
  IF r.threw
    THEN [next |-> "return",
          reply |-> Reply(502, "Fetch to Venice retrieve threw", queueId, "")]
  ELSE IF ~r.ok
    THEN [next |-> "return",
          reply |-> Reply(502, "Venice retrieve failed", queueId, "")]
  ELSE IF IsJsonContentType(r.ct)
    THEN RetrieveJson(r, queueId)
  ELSE [next |-> "return",
        reply |-> Reply(200, "videoBytes", "", videoMime(r.ct))]

\* variant: the queue_id of a 2xx queue response is not checked
QueueStep_SkipsIdCheck(q) ==
  IF q.threw
    THEN [next |-> "return", reply |-> Reply(502, "Fetch to Venice queue threw", "", "")]
  ELSE IF ~q.ok
    THEN [next |-> "return", reply |-> Reply(502, "Venice queue failed", "", "")]
  ELSE [next |-> "poll", reply |-> NoReply]

\* variant: a non-2xx queue response goes on to poll
QueueStep_PollsAfterNonOk(q) ==
  IF q.threw
    THEN [next |-> "return", reply |-> Reply(502, "Fetch to Venice queue threw", "", "")]
  ELSE IF q.ok /\ (q.queue_id.type = "undefined" \/ q.queue_id.str = "")
    THEN [next |-> "return",
          reply |-> Reply(502, "Venice queue response missing queue_id", "", "")]
  ELSE [next |-> "poll", reply |-> NoReply]

\* video.ts: what onRequestPost does once the fetch of /video/queue has
\* settled with q: return a submission error, or go on to poll q.queue_id.
QueueStep(q) ==
  IF q.threw
    THEN [next |-> "return", reply |-> Reply(502, "Fetch to Venice queue threw", "", "")]
  ELSE IF ~q.ok
    THEN [next |-> "return", reply |-> Reply(502, "Venice queue failed", "", "")]
  ELSE IF q.queue_id.type = "undefined" \/ q.queue_id.str = ""
    THEN [next |-> "return",
          reply |-> Reply(502, "Venice queue response missing queue_id", "", "")]
  ELSE [next |-> "poll", reply |-> NoReply]

\* video.ts: const model = ...
ModelOf(body) ==
  IF NonBlankString(body.model) THEN trim(body.model.str) ELSE DefaultModel

\* variant: every duration that is given is passed on
DurOf_AcceptsAnyDuration(body) ==
  LET durNum == IF body.duration.type = "number" THEN body.duration.str
                ELSE IF body.duration.type = "string" THEN trim(body.duration.str)
                ELSE "5"
  IN IF durNum = "5" THEN "5s" ELSE durNum \o "s"

\* video.ts: durNum and dur; "" stands for null
DurOf(body) ==
  LET durNum == IF body.duration.type = "number" THEN body.duration.str
                ELSE IF body.duration.type = "string" THEN trim(body.duration.str)
                ELSE "5"
  IN IF durNum = "5" THEN "5s" ELSE IF durNum = "10" THEN "10s" ELSE ""

\* video.ts: finalImageUrl
FinalImageUrlOf(body) ==
  IF NonBlankString(body.image_url) THEN trim(body.image_url.str)
  ELSE IF NonBlankString(body.image) THEN trim(body.image.str)
  ELSE ""

\* ------------------------------------------------------------------------
\* State
\* ------------------------------------------------------------------------
VARIABLES
  fpc, messages, maxChars, fitted, refitted,   \* fitter harness
  vpc,            \* position of the video handler
  body,           \* the inbound request being handled
  mode,           \* "none", "poll" (queue_id given) or "queue"
  model,          \* model resolved by onRequestPost
  queueId,        \* opts.queueId of retrieveUntilDone
  started,        \* const started = Date.now()
  now,            \* Date.now()
  queueCalls,     \* fetches of /video/queue issued for this request
  retrieveCalls,  \* fetches of /video/retrieve issued for this request
  sleeps,         \* sleep(pollEveryMs) calls completed for this request
  processingSeen, \* retrievals of this request that reported processing
  queueSent,      \* model of the payload sent to /video/queue
  retrieveSent,   \* the <<model, queue_id>> pairs sent to /video/retrieve
  lastQueue,      \* how the queue fetch settled
  lastRetrieve,   \* how the last retrieve fetch settled
  lastCallAt,     \* Date.now() when the last retrieve fetch was issued
  reply,          \* the HTTP response of the handler
  requests,       \* number of requests received so far
  inFlight,       \* retrieve fetches issued and not yet settled
  prevDeadline,   \* the previous response was the "still processing" one
  tpc, tstr, tmax, tout,   \* truncateString harness: arguments and result
  spc,            \* position inside fitMessagesToBudget
  scanI,          \* loop variable i (1-based index into middle)
  scanResult,     \* let result
  scanAccepted,   \* positions in messages whose candidate was taken
  scanSkipped,    \* positions in messages whose candidate was refused
  cpc,            \* chat handler: position inside onRequestPost
  cbody,          \* chat handler: the request body
  veniceCalls,    \* chat handler: calls of callVeniceChat
  deepSeekCalls,  \* chat handler: calls of callDeepSeekChat
  creply,         \* chat handler: the HTTP response
  ipc,            \* imagechat handler: position inside onRequestPost
  ibody,          \* imagechat handler: the request body
  ireply,         \* imagechat handler: let reply
  iplan,          \* imagechat handler: plan.generate
  iresp           \* imagechat handler: the HTTP response

fitVars == <<fpc, messages, maxChars, fitted, refitted>>

videoVars == <<vpc, body, mode, model, queueId, started, now, queueCalls,
               retrieveCalls, sleeps, processingSeen, queueSent, retrieveSent,
               lastQueue, lastRetrieve, lastCallAt, reply, requests,
               inFlight, prevDeadline>>

truncVars == <<tpc, tstr, tmax, tout>>

scanVars == <<spc, scanI, scanResult, scanAccepted, scanSkipped>>

chatVars == <<cpc, cbody, veniceCalls, deepSeekCalls, creply>>

imgVars == <<ipc, ibody, ireply, iplan, iresp>>

auxVars == <<truncVars, scanVars, chatVars, imgVars>>

vars == <<fitVars, videoVars, auxVars>>

VideoIdle ==
  /\ vpc = "idle"
  /\ body = NoRequest
  /\ mode = "none"
  /\ model = ""
  /\ queueId = ""
  /\ started = 0
  /\ now = 0
  /\ queueCalls = 0
  /\ retrieveCalls = 0
  /\ sleeps = 0
  /\ processingSeen = 0
  /\ queueSent = ""
  /\ retrieveSent = {}
  /\ lastQueue = NoQueueResponse
  /\ lastRetrieve = NoRetrieveResponse
  /\ lastCallAt = 0
  /\ reply = NoReply
  /\ requests = 0
  /\ inFlight = 0
  /\ prevDeadline = FALSE

FitOff ==
  /\ fpc = "off"
  /\ messages = <<>>
  /\ maxChars = 0
  /\ fitted = <<>>
  /\ refitted = <<>>

TruncOff ==
  /\ tpc = "off"
  /\ tstr = <<>>
  /\ tmax = 0
  /\ tout = <<>>

ScanOff ==
  /\ spc = "off"
  /\ scanI = 0
  /\ scanResult = <<>>
  /\ scanAccepted = {}
  /\ scanSkipped = {}

NoChatReply == [status |-> 0, kind |-> "none", reply |-> <<>>]

ChatOff ==
  /\ cpc = "off"
  /\ cbody = [ok |-> FALSE]
  /\ veniceCalls = 0
  /\ deepSeekCalls = 0
  /\ creply = NoChatReply

ImgOff ==
  /\ ipc = "off"
  /\ ibody = [ok |-> FALSE]
  /\ ireply = <<>>
  /\ iplan = FALSE
  /\ iresp = NoChatReply

\* ------------------------------------------------------------------------
\* The fitter harness: one call of fitMessagesToBudget on a drawn input,
\* then a second call on its own output.
\* ------------------------------------------------------------------------
InitFit ==
  /\ fpc = "ready"
  /\ messages \in MessageLists
  /\ maxChars \in Budgets
  /\ fitted = <<>>
  /\ refitted = <<>>
  /\ VideoIdle
  /\ TruncOff
  /\ ScanOff
  /\ ChatOff
  /\ ImgOff

\* const messages = fitMessagesToBudget(messagesBeforeFit, MAX_PROMPT_CHARS)
Fit ==
  /\ fpc = "ready"
  /\ fitted' = fitMessagesToBudget(messages, maxChars)
  /\ fpc' = "fitted"
  /\ UNCHANGED <<messages, maxChars, refitted, videoVars, auxVars>>

\* fitMessagesToBudget applied to its own output with the same budget
Refit ==
  /\ fpc = "fitted"
  /\ refitted' = fitMessagesToBudget(fitted, maxChars)
  /\ fpc' = "refitted"
  /\ UNCHANGED <<messages, maxChars, fitted, videoVars, auxVars>>

NextFit == Fit \/ Refit

SpecFit == InitFit /\ [][NextFit]_vars

\* ------------------------------------------------------------------------
\* The truncateString harness: one call on drawn arguments.
\* ------------------------------------------------------------------------
Chars == {"a", "b", Ellipsis}

Strings == UNION { [1..k -> Chars] : k \in 0..(MaxLen + 1) }

InitTruncate ==
  /\ tpc = "ready"
  /\ tstr \in Strings
  /\ tmax \in Budgets
  /\ tout = <<>>
  /\ FitOff
  /\ ScanOff
  /\ VideoIdle
  /\ ChatOff
  /\ ImgOff

\* truncateString(s, maxLen)
Truncate ==
  /\ tpc = "ready"
  /\ tout' = truncateString(tstr, tmax)
  /\ tpc' = "done"
  /\ UNCHANGED <<tstr, tmax, fitVars, videoVars, scanVars, chatVars, imgVars>>

NextTruncate == Truncate

SpecTruncate == InitTruncate /\ [][NextTruncate]_vars

\* ------------------------------------------------------------------------
\* fitMessagesToBudget statement by statement: the set-up and the
\* over-budget branch, then one pass of the for-loop per step.
\* ------------------------------------------------------------------------
\* const sys = system?.role === "system" ? system : null
SysOf(ms) == ms[1].role = "system"

\* const middle = messages.slice(sys ? 1 : 0, -1)
MiddleOf(ms) == SubSeq(ms, IF SysOf(ms) THEN 2 ELSE 1, Len(ms) - 1)

SafeSysOf(ms) == [role |-> "system", content |-> ms[1].content]

SafeLastOf(ms) == [role |-> ms[Len(ms)].role, content |-> ms[Len(ms)].content]

\* result after the two push calls
BaseResultOf(ms) ==
  IF SysOf(ms) THEN <<SafeSysOf(ms), SafeLastOf(ms)>> ELSE <<SafeLastOf(ms)>>

\* const insertIndex = safeSys ? 1 : 0
InsertIndexOf(ms) == IF SysOf(ms) THEN 1 ELSE 0

\* the for-loop with "break" in place of "continue", as the comment in the
\* else branch says would do: the loop is left at the first candidate that
\* does not fit
RECURSIVE FitLoopWithBreak(_, _, _, _, _)
FitLoopWithBreak(middle, i, result, insertIndex, budget) ==
  IF i = 0 THEN result
  ELSE LET next == FitStep(result, middle[i], insertIndex, budget)
       IN IF Len(next) > Len(result)
            THEN FitLoopWithBreak(middle, i - 1, next, insertIndex, budget)
          ELSE result

\* fitMessagesToBudget with that loop
fitWithBreak(ms, budget) ==
  IF Len(ms) = 0 THEN <<>>
  ELSE IF sizeOf(BaseResultOf(ms)) > budget
    THEN FitTruncate(SysOf(ms), SafeSysOf(ms), SafeLastOf(ms), budget)
  ELSE FitLoopWithBreak(MiddleOf(ms), Len(MiddleOf(ms)), BaseResultOf(ms),
                        InsertIndexOf(ms), budget)

\* variant: the loop is left at the first candidate that does not fit
ScanNext_BreaksOnSkip(i, taken) == IF taken THEN i - 1 ELSE 0

\* the else branch "continue" and the loop update i--
ScanNext(i, taken) == i - 1

InitScan ==
  /\ spc = "ready"
  /\ messages \in MessageLists
  /\ maxChars \in Budgets
  /\ fpc = "off"
  /\ fitted = <<>>
  /\ refitted = <<>>
  /\ scanI = 0
  /\ scanResult = <<>>
  /\ scanAccepted = {}
  /\ scanSkipped = {}
  /\ TruncOff
  /\ VideoIdle
  /\ ChatOff
  /\ ImgOff

\* the set-up; if (sizeOf(result) > maxChars) the truncated pair is returned
ScanStart ==
  /\ spc = "ready"
  /\ IF sizeOf(BaseResultOf(messages)) > maxChars
       THEN /\ scanResult' = FitTruncate(SysOf(messages), SafeSysOf(messages),
                                         SafeLastOf(messages), maxChars)
            /\ spc' = "done"
            /\ scanI' = 0
       ELSE /\ scanResult' = BaseResultOf(messages)
            /\ spc' = "loop"
            /\ scanI' = Len(MiddleOf(messages))
  /\ UNCHANGED <<scanAccepted, scanSkipped, fitVars, videoVars, truncVars,
                 chatVars, imgVars>>

\* one pass of the for-loop, for middle[scanI]
ScanStep ==
  /\ spc = "loop"
  /\ scanI >= 1
  /\ LET next == FitStep(scanResult, MiddleOf(messages)[scanI],
                         InsertIndexOf(messages), maxChars)
         taken == Len(next) > Len(scanResult)
         pos == scanI + InsertIndexOf(messages)
     IN /\ scanResult' = next
        /\ scanI' = ScanNext(scanI, taken)
        /\ scanAccepted' = IF taken THEN scanAccepted \cup {pos} ELSE scanAccepted
        /\ scanSkipped' = IF taken THEN scanSkipped ELSE scanSkipped \cup {pos}
  /\ UNCHANGED <<spc, fitVars, videoVars, truncVars, chatVars, imgVars>>

\* the loop is over: return result
ScanReturn ==
  /\ spc = "loop"
  /\ scanI < 1
  /\ spc' = "done"
  /\ UNCHANGED <<scanI, scanResult, scanAccepted, scanSkipped, fitVars,
                 videoVars, truncVars, chatVars, imgVars>>

NextScan == ScanStart \/ ScanStep \/ ScanReturn

SpecScan == InitScan /\ [][NextScan]_vars

\* ------------------------------------------------------------------------
\* The chat handler: onRequestPost of chat.ts
\* ------------------------------------------------------------------------
Space == " "

Newline == "NL"

\* String.prototype.trim on a sequence of characters
RECURSIVE trimSpaces(_)
trimSpaces(s) ==
  IF s = <<>> THEN s
  ELSE IF Head(s) \in {Space, Newline} THEN trimSpaces(Tail(s))
  ELSE IF s[Len(s)] \in {Space, Newline}
    THEN trimSpaces(SubSeq(s, 1, Len(s) - 1))
  ELSE s

\* chat.ts: truncateReply
truncateReply(text, maxLen) == truncateString(trimSpaces(text), maxLen)

MAX_MESSAGE_CHARS == 600

MAX_REPLY_CHARS == 500

\* body.message: not a string, or a string
MessageInputs ==
  { [type |-> "undefined", text |-> <<>>],
    [type |-> "string", text |-> <<Space>>],
    [type |-> "string", text |-> <<Space>> \o Text(2)],
    [type |-> "string", text |-> Text(MAX_MESSAGE_CHARS) \o <<Space>>],
    [type |-> "string", text |-> Text(MAX_MESSAGE_CHARS + 1)] }

\* the request body: not an object, or an object with its fields; hasKey
\* tells whether env holds the key of the provider of the tier
ChatBodies ==
  { [ok |-> FALSE] }
    \cup [ok : {TRUE}, init : BOOLEAN, tier : {"uncensored", "general", "vip"},
          paymentStatus : {"paid", "unpaid", "undefined"},
          message : MessageInputs, character : BOOLEAN, hasKey : BOOLEAN]

\* what the provider gives back: content of the first choice
ChatReplyTexts ==
  { <<Space>>, <<Space>> \o Text(3) \o <<Space>>, Text(MAX_REPLY_CHARS),
    Text(MAX_REPLY_CHARS + 1) \o <<Space>> }

ChatReply(st, kind, text) == [status |-> st, kind |-> kind, reply |-> text]

\* const tier = body.tier === "uncensored" ? "uncensored" : "general"
TierOf(b) == IF b.tier = "uncensored" THEN "uncensored" ELSE "general"

InitChat ==
  /\ cpc = "received"
  /\ cbody \in ChatBodies
  /\ veniceCalls = 0
  /\ deepSeekCalls = 0
  /\ creply = NoChatReply
  /\ FitOff
  /\ TruncOff
  /\ ScanOff
  /\ VideoIdle
  /\ ImgOff

ChatReturn(r) ==
  /\ creply' = r
  /\ cpc' = "done"
  /\ UNCHANGED <<cbody, veniceCalls, deepSeekCalls, fitVars, videoVars,
                 truncVars, scanVars, imgVars>>

\* tier === "uncensored" ? callVeniceChat(...) : callDeepSeekChat(...)
ChatCallProvider ==
  /\ veniceCalls' = veniceCalls + (IF TierOf(cbody) = "uncensored" THEN 1 ELSE 0)
  /\ deepSeekCalls' = deepSeekCalls + (IF TierOf(cbody) = "uncensored" THEN 0 ELSE 1)
  /\ cpc' = "calling"
  /\ UNCHANGED <<cbody, creply, fitVars, videoVars, truncVars, scanVars,
                 imgVars>>

\* if (!body || typeof body !== "object") return 400
ChatRejectBody ==
  /\ cpc = "received"
  /\ ~cbody.ok
  /\ ChatReturn(ChatReply(400, "Invalid body.", <<>>))

\* if (body.init) and the character is missing: 400
ChatInitRejectCharacter ==
  /\ cpc = "received"
  /\ cbody.ok
  /\ cbody.init
  /\ ~cbody.character
  /\ ChatReturn(ChatReply(400, "Missing character.", <<>>))

\* if (body.init): the provider of the tier is called for the opener
ChatInitCall ==
  /\ cpc = "received"
  /\ cbody.ok
  /\ cbody.init
  /\ cbody.character
  /\ ChatCallProvider

\* if (tier === "uncensored" && body.paymentStatus !== "paid") return 402
ChatRejectPayment ==
  /\ cpc = "received"
  /\ cbody.ok
  /\ ~cbody.init
  /\ TierOf(cbody) = "uncensored"
  /\ cbody.paymentStatus # "paid"
  /\ ChatReturn(ChatReply(402, "Payment not completed. Uncensored is locked.",
                          <<>>))

\* the tests of body.message and body.character: 400
ChatRejectInput ==
  /\ cpc = "received"
  /\ cbody.ok
  /\ ~cbody.init
  /\ ~(TierOf(cbody) = "uncensored" /\ cbody.paymentStatus # "paid")
  /\ LET userMsg == trimSpaces(cbody.message.text)
     IN IF cbody.message.type # "string" \/ userMsg = <<>>
          THEN ChatReturn(ChatReply(400, "Missing message.", <<>>))
        ELSE IF Len(userMsg) > MAX_MESSAGE_CHARS
          THEN ChatReturn(ChatReply(400, "Message too long.", <<>>))
        ELSE /\ ~cbody.character
             /\ ChatReturn(ChatReply(400, "Missing character.", <<>>))

\* the messages are built and fitted, and the provider of the tier is called
ChatCall ==
  /\ cpc = "received"
  /\ cbody.ok
  /\ ~cbody.init
  /\ ~(TierOf(cbody) = "uncensored" /\ cbody.paymentStatus # "paid")
  /\ cbody.message.type = "string"
  /\ trimSpaces(cbody.message.text) # <<>>
  /\ Len(trimSpaces(cbody.message.text)) <= MAX_MESSAGE_CHARS
  /\ cbody.character
  /\ ChatCallProvider

\* the provider call throws (no key, non-2xx, empty content): the catch
\* block answers 500; or it returns the content and the reply is cut
ChatProviderSettles ==
  /\ cpc = "calling"
  /\ \/ ChatReturn(ChatReply(500, "Server error.", <<>>))
     \/ /\ cbody.hasKey
        /\ \E replyRaw \in ChatReplyTexts :
             ChatReturn(ChatReply(200, TierOf(cbody),
                                  truncateReply(replyRaw, MAX_REPLY_CHARS)))

NextChat ==
  \/ ChatRejectBody
  \/ ChatInitRejectCharacter
  \/ ChatInitCall
  \/ ChatRejectPayment
  \/ ChatRejectInput
  \/ ChatCall
  \/ ChatProviderSettles

SpecChat == InitChat /\ [][NextChat]_vars

\* ------------------------------------------------------------------------
\* The imagechat handler: onRequestPost of the variant with
\* MAX_REPLY_CHARS = 600
\* ------------------------------------------------------------------------
IMAGE_MAX_REPLY_CHARS == 600

\* the length above which the tease line replaces the reply
TeaseReplaceAbove == 520

\* line.slice(0, 140)
TeaseMaxChars == 140

\* s.split("\n").filter(Boolean)[0] || "" on a trimmed string
firstLine(s) ==
  LET breaks == { i \in 1..Len(s) : s[i] = Newline }
  IN IF breaks = {} THEN s
     ELSE SubSeq(s, 1, (CHOOSE i \in breaks : \A j \in breaks : i <= j) - 1)

\* makeTeaseLineWithTextModel, from the content the text model returned
teaseLineOf(raw) ==
  LET line == firstLine(trimSpaces(raw))
  IN SubSeq(line, 1, IF Len(line) < TeaseMaxChars THEN Len(line)
                     ELSE TeaseMaxChars)

\* the request body; message is absent, "__INIT__", a plain message, or a
\* message for which userExplicitlyAsksImage is true
ImgBodies ==
  { [ok |-> FALSE] }
    \cup [ok : {TRUE}, donation : {TRUE}, character : BOOLEAN,
          message : {"none"}, paid : {FALSE}]
    \cup [ok : {TRUE}, donation : {FALSE}, character : BOOLEAN,
          message : {"none", "init", "plain", "asks"}, paid : BOOLEAN]

\* content returned by the text model for the reply
ImgReplyTexts ==
  { <<Space>>, Text(3) \o <<Newline>>, Text(TeaseReplaceAbove),
    Text(TeaseReplaceAbove + 1), Text(IMAGE_MAX_REPLY_CHARS),
    <<Space>> \o Text(IMAGE_MAX_REPLY_CHARS + 1) }

\* content returned by the text model for the tease line
TeaseTexts ==
  { <<Newline>>, <<Space>> \o Text(3) \o <<Newline>> \o Text(2),
    Text(TeaseMaxChars), Text(TeaseMaxChars + 1) }

\* the literal replies: the gift line and the longest humanized image error
GiftReply == Text(35)

HumanizedErrorReply == Text(57)

InitImg ==
  /\ ipc = "received"
  /\ ibody \in ImgBodies
  /\ ireply = <<>>
  /\ iplan = FALSE
  /\ iresp = NoChatReply
  /\ FitOff
  /\ TruncOff
  /\ ScanOff
  /\ VideoIdle
  /\ ChatOff

ImgReturn(r) ==
  /\ iresp' = r
  /\ ipc' = "done"

\* if (!bodyAny || typeof bodyAny !== "object") return 400
ImgRejectBody ==
  /\ ipc = "received"
  /\ ~ibody.ok
  /\ ImgReturn(ChatReply(400, "Invalid body.", <<>>))
  /\ UNCHANGED <<ibody, ireply, iplan, fitVars, videoVars, truncVars,
                 scanVars, chatVars>>

\* if (bodyAny.type === "donation_gift"): 400, the gift, or 500
ImgDonationGift ==
  /\ ipc = "received"
  /\ ibody.ok
  /\ ibody.donation
  /\ IF ~ibody.character
       THEN ImgReturn(ChatReply(400, "Missing character/session.", <<>>))
     ELSE \/ ImgReturn(ChatReply(200, "donation_gift", GiftReply))
          \/ ImgReturn(ChatReply(500, "Gift generation failed.", <<>>))
  /\ UNCHANGED <<ibody, ireply, iplan, fitVars, videoVars, truncVars,
                 scanVars, chatVars>>

\* the tests of character, message and paymentStatus
ImgRejectInput ==
  /\ ipc = "received"
  /\ ibody.ok
  /\ ~ibody.donation
  /\ IF ~ibody.character
       THEN ImgReturn(ChatReply(400, "Missing character/session.", <<>>))
     ELSE IF ibody.message = "none"
       THEN ImgReturn(ChatReply(400, "Missing message.", <<>>))
     ELSE /\ ~ibody.paid
          /\ ImgReturn(ChatReply(402, "Payment not completed. Image chat is locked.",
                                 <<>>))
  /\ UNCHANGED <<ibody, ireply, iplan, fitVars, videoVars, truncVars,
                 scanVars, chatVars>>

\* callVeniceChat for the reply; let reply = truncateReply(replyRaw, ...)
ImgTextReply ==
  /\ ipc = "received"
  /\ ibody.ok
  /\ ~ibody.donation
  /\ ibody.character
  /\ ibody.message # "none"
  /\ ibody.paid
  /\ \/ /\ ImgReturn(ChatReply(500, "Server error.", <<>>))
        /\ UNCHANGED ireply
     \/ \E replyRaw \in ImgReplyTexts :
          /\ ireply' = truncateReply(replyRaw, IMAGE_MAX_REPLY_CHARS)
          /\ ipc' = "replied"
          /\ UNCHANGED iresp
  /\ UNCHANGED <<ibody, iplan, fitVars, videoVars, truncVars, scanVars,
                 chatVars>>

\* the image plan: none for an init request; the planner's answer, forced
\* to generate when the user asks for an image
ImgPlan ==
  /\ ipc = "replied"
  /\ \/ /\ ibody.message # "init"
        /\ ImgReturn(ChatReply(500, "Server error.", <<>>))
        /\ UNCHANGED iplan
     \/ /\ iplan' \in (IF ibody.message = "init" THEN {FALSE}
                       ELSE IF ibody.message = "asks" THEN {TRUE}
                       ELSE BOOLEAN)
        /\ ipc' = "planned"
        /\ UNCHANGED iresp
  /\ UNCHANGED <<ibody, ireply, fitVars, videoVars, truncVars, scanVars,
                 chatVars>>

\* the reply after the probability gate refused the image
GateReply(text, teaseLine) ==
  IF Len(text) > TeaseReplaceAbove THEN teaseLine
  ELSE IF teaseLine # <<>> THEN trimSpaces(text) \o <<Newline>> \o teaseLine
  ELSE text

\* the probability gate: passImageProbabilityGate draws Math.random()
ImgGate ==
  /\ ipc = "planned"
  /\ IF iplan /\ ibody.message # "asks"
       THEN \/ /\ ipc' = "gated"
               /\ UNCHANGED <<iplan, ireply, iresp>>
            \/ /\ ImgReturn(ChatReply(500, "Server error.", <<>>))
               /\ iplan' = FALSE
               /\ UNCHANGED ireply
            \/ \E raw \in TeaseTexts :
                 /\ iplan' = FALSE
                 /\ ireply' = GateReply(ireply, teaseLineOf(raw))
                 /\ ipc' = "gated"
                 /\ UNCHANGED iresp
     ELSE /\ ipc' = "gated"
          /\ UNCHANGED <<iplan, ireply, iresp>>
  /\ UNCHANGED <<ibody, fitVars, videoVars, truncVars, scanVars, chatVars>>

\* the image is generated, blocked or fails, and the response is returned
ImgFinish ==
  /\ ipc = "gated"
  /\ IF iplan
       THEN \/ ImgReturn(ChatReply(200, "blocked", ireply))
            \/ ImgReturn(ChatReply(200, "image_error", HumanizedErrorReply))
            \/ ImgReturn(ChatReply(200, "image", ireply))
     ELSE ImgReturn(ChatReply(200, "text", ireply))
  /\ UNCHANGED <<ibody, ireply, iplan, fitVars, videoVars, truncVars,
                 scanVars, chatVars>>

NextImg ==
  \/ ImgRejectBody
  \/ ImgDonationGift
  \/ ImgRejectInput
  \/ ImgTextReply
  \/ ImgPlan
  \/ ImgGate
  \/ ImgFinish

SpecImg == InitImg /\ [][NextImg]_vars

\* ------------------------------------------------------------------------
\* The video handler: onRequestPost and retrieveUntilDone, one request at a
\* time, each step up to the next await.
\* ------------------------------------------------------------------------
InitVideo == FitOff /\ VideoIdle /\ TruncOff /\ ScanOff /\ ChatOff /\ ImgOff

Return(r) ==
  /\ reply' = r
  /\ vpc' = "done"
  /\ body' = NoRequest

\* variant: started is kept from the invocation before
EnterRetrieveUntilDone_KeepsStarted(m, q, t) ==
  /\ model' = m
  /\ queueId' = q
  /\ started' = started
  /\ vpc' = "loop"
  /\ body' = NoRequest

\* retrieveUntilDone is entered: const started = Date.now()
EnterRetrieveUntilDone(m, q, t) ==
  /\ model' = m
  /\ queueId' = q
  /\ started' = t
  /\ vpc' = "loop"
  /\ body' = NoRequest

\* a request arrives with its env and body
ReceiveRequest ==
  /\ vpc = "idle"
  /\ requests < MaxRequests
  /\ requests' = requests + 1
  /\ body' \in Requests
  /\ vpc' = "received"
  /\ UNCHANGED <<mode, model, queueId, started, now, queueCalls, retrieveCalls,
                 sleeps, processingSeen, queueSent, retrieveSent, lastQueue,
                 lastRetrieve, lastCallAt, reply, inFlight,
                 prevDeadline, fitVars, auxVars>>

\* the response has been returned and the invocation is over: nothing of
\* it is kept, only the clock goes on
Complete ==
  /\ vpc = "done"
  /\ vpc' = "idle"
  /\ mode' = "none"
  /\ model' = ""
  /\ queueId' = ""
  /\ started' = 0
  /\ queueCalls' = 0
  /\ retrieveCalls' = 0
  /\ sleeps' = 0
  /\ processingSeen' = 0
  /\ queueSent' = ""
  /\ retrieveSent' = {}
  /\ lastQueue' = NoQueueResponse
  /\ lastRetrieve' = NoRetrieveResponse
  /\ lastCallAt' = 0
  /\ reply' = NoReply
  /\ inFlight' = 0
  /\ prevDeadline' = (reply.status = 202)
  /\ UNCHANGED <<body, now, requests, fitVars, auxVars>>

\* if (!env.VENICE_API_KEY) return 500
RejectMissingKey ==
  /\ vpc = "received"
  /\ ~body.hasKey
  /\ Return(Reply(500, "Missing VENICE_API_KEY in environment secrets.", "", ""))
  /\ UNCHANGED <<mode, model, queueId, started, now, queueCalls, retrieveCalls,
                 sleeps, processingSeen, queueSent, retrieveSent, lastQueue,
                 lastRetrieve, lastCallAt, requests, inFlight,
                 prevDeadline, fitVars, auxVars>>

\* (B) poll-only mode: the body carries a queue_id
StartPollOnly ==
  /\ vpc = "received"
  /\ body.hasKey
  /\ NonBlankString(body.queue_id)
  /\ mode' = "poll"
  /\ EnterRetrieveUntilDone(ModelOf(body), trim(body.queue_id.str), now)
  /\ UNCHANGED <<now, queueCalls, retrieveCalls, sleeps, processingSeen,
                 queueSent, retrieveSent, lastQueue, lastRetrieve, lastCallAt,
                 reply, requests, inFlight,
                 prevDeadline, fitVars, auxVars>>

\* (A) queue mode: if (!dur) return 400
RejectDuration ==
  /\ vpc = "received"
  /\ body.hasKey
  /\ ~NonBlankString(body.queue_id)
  /\ DurOf(body) = ""
  /\ Return(Reply(400, "Unsupported duration. Supported: 5, 10", "", ""))
  /\ UNCHANGED <<mode, model, queueId, started, now, queueCalls, retrieveCalls,
                 sleeps, processingSeen, queueSent, retrieveSent, lastQueue,
                 lastRetrieve, lastCallAt, requests, inFlight,
                 prevDeadline, fitVars, auxVars>>

\* (A) queue mode: if (!finalImageUrl) return 400
RejectImage ==
  /\ vpc = "received"
  /\ body.hasKey
  /\ ~NonBlankString(body.queue_id)
  /\ DurOf(body) # ""
  /\ FinalImageUrlOf(body) = ""
  /\ Return(Reply(400, "Missing image.", "", ""))
  /\ UNCHANGED <<mode, model, queueId, started, now, queueCalls, retrieveCalls,
                 sleeps, processingSeen, queueSent, retrieveSent, lastQueue,
                 lastRetrieve, lastCallAt, requests, inFlight,
                 prevDeadline, fitVars, auxVars>>

\* (A) queue mode: the fetch of /video/queue is issued
SendQueue ==
  /\ vpc = "received"
  /\ body.hasKey
  /\ ~NonBlankString(body.queue_id)
  /\ DurOf(body) # ""
  /\ FinalImageUrlOf(body) # ""
  /\ mode' = "queue"
  /\ model' = ModelOf(body)
  /\ queueSent' = ModelOf(body)
  /\ queueCalls' = queueCalls + 1
  /\ vpc' = "queueing"
  /\ UNCHANGED <<body, queueId, started, now, retrieveCalls, sleeps,
                 processingSeen, retrieveSent, lastQueue, lastRetrieve,
                 lastCallAt, reply, requests, inFlight,
                 prevDeadline, fitVars, auxVars>>

\* the fetch of /video/queue settles: a submission error is returned, or
\* retrieveUntilDone is entered with the queue_id of the response
QueueSettles ==
  /\ vpc = "queueing"
  /\ \E q \in QueueResponses, d \in Delays :
       /\ now' = now + d
       /\ lastQueue' = q
       /\ IF QueueStep(q).next = "return"
            THEN /\ Return(QueueStep(q).reply)
                 /\ UNCHANGED <<model, queueId, started>>
            ELSE /\ EnterRetrieveUntilDone(model, q.queue_id.str, now')
                 /\ UNCHANGED reply
  /\ UNCHANGED <<mode, queueCalls, retrieveCalls, sleeps, processingSeen,
                 queueSent, retrieveSent, lastRetrieve, lastCallAt, requests,
                 inFlight,
                 prevDeadline, fitVars, auxVars>>

\* variant: every retrieval names the default model
RetrievePayload_DefaultModel(m, q) == <<DefaultModel, q>>

\* body of the fetch of /video/retrieve: JSON.stringify({ model, queue_id })
RetrievePayload(m, q) == <<m, q>>

\* the loop test succeeds and the fetch of /video/retrieve is issued
SendRetrieve ==
  /\ MayIssueRetrieve(vpc)
  /\ LoopCondition(now, started)
  /\ retrieveCalls < MaxCalls
  /\ retrieveCalls' = retrieveCalls + 1
  /\ retrieveSent' = retrieveSent \cup {RetrievePayload(model, queueId)}
  /\ lastCallAt' = now
  /\ inFlight' = inFlight + 1
  /\ vpc' = "retrieving"
  /\ UNCHANGED <<body, mode, model, queueId, started, now, queueCalls, sleeps,
                 processingSeen, queueSent, lastQueue, lastRetrieve, reply,
                 requests, prevDeadline, fitVars,
                 auxVars>>

\* the loop test fails: the "still processing" response
DeadlineExceeded ==
  /\ vpc = "loop"
  /\ ~LoopCondition(now, started)
  /\ Return(DeadlineReply(queueId))
  /\ UNCHANGED <<mode, model, queueId, started, now, queueCalls, retrieveCalls,
                 sleeps, processingSeen, queueSent, retrieveSent, lastQueue,
                 lastRetrieve, lastCallAt, requests, inFlight,
                 prevDeadline, fitVars, auxVars>>

\* the fetch of /video/retrieve settles and its response is classified
RetrieveSettles ==
  /\ vpc = "retrieving"
  /\ \E r \in RetrieveResponses, d \in Delays :
       /\ now' = now + d
       /\ lastRetrieve' = r
       /\ inFlight' = inFlight - 1
       /\ IF RetrieveStep(r, queueId).next = "sleep"
            THEN /\ vpc' = "sleeping"
                 /\ processingSeen' = processingSeen + 1
                 /\ UNCHANGED <<reply, body>>
            ELSE /\ Return(RetrieveStep(r, queueId).reply)
                 /\ UNCHANGED processingSeen
  /\ UNCHANGED <<mode, model, queueId, started, queueCalls, retrieveCalls,
                 sleeps, queueSent, retrieveSent, lastQueue, lastCallAt,
                 requests, prevDeadline, fitVars,
                 auxVars>>

\* await sleep(pollEveryMs); continue
Sleep ==
  /\ vpc = "sleeping"
  /\ now' = sleep(now, pollEveryMs)
  /\ sleeps' = sleeps + 1
  /\ vpc' = "loop"
  /\ UNCHANGED <<body, mode, model, queueId, started, queueCalls,
                 retrieveCalls, processingSeen, queueSent, retrieveSent,
                 lastQueue, lastRetrieve, lastCallAt, reply, requests, inFlight,
                 prevDeadline, fitVars, auxVars>>

NextVideo ==
  \/ ReceiveRequest
  \/ Complete
  \/ RejectMissingKey
  \/ StartPollOnly
  \/ RejectDuration
  \/ RejectImage
  \/ SendQueue
  \/ QueueSettles
  \/ SendRetrieve
  \/ DeadlineExceeded
  \/ RetrieveSettles
  \/ Sleep

SpecVideo == InitVideo /\ [][NextVideo]_vars

\* ------------------------------------------------------------------------
\* One invocation of retrieveUntilDone on its own, from its entry to its
\* return; every fetch settles and every timer fires.
\* ------------------------------------------------------------------------
InitPoll ==
  /\ vpc = "loop"
  /\ body = NoRequest
  /\ mode \in {"poll", "queue"}
  /\ model \in {DefaultModel, "m1"}
  /\ queueId \in {"job1", "job2"}
  /\ now \in Delays
  /\ started = now
  /\ queueCalls = (IF mode = "queue" THEN 1 ELSE 0)
  /\ retrieveCalls = 0
  /\ sleeps = 0
  /\ processingSeen = 0
  /\ queueSent = (IF mode = "queue" THEN model ELSE "")
  /\ retrieveSent = {}
  /\ lastQueue = (IF mode = "queue"
                   THEN [threw |-> FALSE, ok |-> TRUE,
                         queue_id |-> JsString(queueId)]
                 ELSE NoQueueResponse)
  /\ lastRetrieve = NoRetrieveResponse
  /\ lastCallAt = 0
  /\ reply = NoReply
  /\ requests = 1
  /\ inFlight = 0
  /\ prevDeadline \in BOOLEAN
  /\ FitOff
  /\ TruncOff
  /\ ScanOff
  /\ ChatOff
  /\ ImgOff

NextPoll ==
  \/ SendRetrieve
  \/ RetrieveSettles
  \/ Sleep
  \/ DeadlineExceeded

SpecPoll ==
  /\ InitPoll
  /\ [][NextPoll]_vars
  /\ WF_vars(SendRetrieve)
  /\ WF_vars(RetrieveSettles)
  /\ WF_vars(Sleep)
  /\ WF_vars(DeadlineExceeded)

\* ------------------------------------------------------------------------
\* Vocabulary of the fitter properties
\* ------------------------------------------------------------------------
HasAnchor(ms) == Len(ms) >= 1 /\ ms[1].role = "system"

AnchorLen(ms) == IF HasAnchor(ms) THEN Len(ms[1].content) ELSE 0

Trailing(ms) == ms[Len(ms)]

\* the truncation rule: s reduced to at most n characters
TruncatedTo(c, s, n) ==
  IF n <= 0 THEN c = <<>>
  ELSE IF Len(s) <= n THEN c = s
  ELSE c = SubSeq(s, 1, n - 1) \o <<Ellipsis>>

\* c is s itself or some truncation of s
IsTruncationOf(c, s) == c = s \/ \E n \in 0..Len(s) : TruncatedTo(c, s, n)

\* positions of the middle messages in the input and in the output
MiddleIn(ms) == ((IF HasAnchor(ms) THEN 2 ELSE 1))..(Len(ms) - 1)

MiddleOut(ms, out) == ((IF HasAnchor(ms) THEN 2 ELSE 1))..(Len(out) - 1)

\* the middle of out is a subsequence of the middle of ms, order preserved
MiddleEmbeds(ms, out) ==
  \E f \in [MiddleOut(ms, out) -> MiddleIn(ms)] :
    /\ \A k \in MiddleOut(ms, out) : out[k] = ms[f[k]]
    /\ \A k, l \in MiddleOut(ms, out) : k < l => f[k] < f[l]

Called == fpc \in {"fitted", "refitted"}

\* C1 (as stated): the summed content length of the output is <= maxChars
\* unless the system anchor alone is longer than maxChars.
C1_SumWithinBudget ==
  Called => \/ sizeOf(fitted) <= maxChars
            \/ (HasAnchor(messages) /\ AnchorLen(messages) > maxChars)

\* C1 (amended): the summed content length of the output is
\* <= max(0, maxChars) unless the system anchor alone is longer than maxChars.
C1_SumWithinNonNegBudget ==
  Called => \/ sizeOf(fitted) <= Max(0, maxChars)
            \/ (HasAnchor(messages) /\ AnchorLen(messages) > maxChars)

C1_Witness ==
  /\ Called
  /\ HasAnchor(messages)
  /\ Len(messages) = 4
  /\ maxChars >= 3
  /\ AnchorLen(messages) >= 1
  /\ sizeOf(messages) > maxChars
  /\ sizeOf(fitted) = maxChars
  /\ Len(fitted) = 3

\* C2: the trailing message is the last element of the output (same role,
\* content equal or truncated) and a system first message is the first
\* element of the output (content equal or truncated); neither is dropped.
C2_AnchorAndTrailingKept ==
  Called =>
    /\ Len(fitted) >= 1
    /\ fitted[Len(fitted)].role = Trailing(messages).role
    /\ IsTruncationOf(fitted[Len(fitted)].content, Trailing(messages).content)
    /\ HasAnchor(messages) =>
         /\ fitted[1].role = "system"
         /\ IsTruncationOf(fitted[1].content, messages[1].content)
         /\ (Len(messages) >= 2 => Len(fitted) >= 2)

C2_Witness ==
  /\ Called
  /\ HasAnchor(messages)
  /\ Len(messages) >= 3
  /\ Len(fitted) = 2
  /\ fitted[1] = messages[1]
  /\ fitted[2].content # Trailing(messages).content
  /\ fitted[2].content # <<>>

\* C3: the output is [anchor?, accepted middle messages, trailing] and the
\* accepted middle messages keep the relative order they have in the input.
C3_MiddleInOriginalOrder ==
  Called =>
    /\ Len(fitted) >= (IF HasAnchor(messages) THEN 2 ELSE 1)
    /\ HasAnchor(messages) => fitted[1].role = "system"
    /\ fitted[Len(fitted)].role = Trailing(messages).role
    /\ MiddleEmbeds(messages, fitted)

C3_Witness ==
  /\ Called
  /\ ~HasAnchor(messages)
  /\ Len(messages) = 4
  /\ Len(fitted) = 3
  /\ messages[1] # messages[3]
  /\ Len(messages[2].content) > Len(messages[1].content)
  /\ fitted[1] = messages[1]
  /\ fitted[2] = messages[3]
  /\ fitted[3] = messages[4]

\* C4: fitting the output again with the same budget returns the same list.
C4_Idempotent ==
  fpc = "refitted" => refitted = fitted

\* C9: an input of two or more messages with a system first message whose
\* summed content length is <= maxChars is returned whole, unchanged and in
\* order.
C9_UnderBudgetUnchanged ==
  (Called /\ Len(messages) >= 2 /\ HasAnchor(messages)
          /\ sizeOf(messages) <= maxChars)
    => fitted = messages

C9_Witness ==
  /\ Called
  /\ Len(messages) = 4
  /\ HasAnchor(messages)
  /\ sizeOf(messages) = maxChars
  /\ \A i \in 1..4 : Len(messages[i].content) >= 1
  /\ messages[2] # messages[3]
  /\ fitted = messages

\* C10: when anchor length plus trailing length exceeds maxChars the output
\* is [anchor?, truncatedTrailing]: the anchor at full length, the trailing
\* content truncated to max(0, maxChars - anchorLength) characters (to
\* maxChars without an anchor), and no middle message.
C10_OverBudgetTruncatesTrailing ==
  (Called /\ AnchorLen(messages) + Len(Trailing(messages).content) > maxChars)
    => /\ Len(fitted) = (IF HasAnchor(messages) THEN 2 ELSE 1)
       /\ HasAnchor(messages) => fitted[1] = messages[1]
       /\ fitted[Len(fitted)].role = Trailing(messages).role
       /\ Len(fitted[Len(fitted)].content)
            = Max(0, maxChars - AnchorLen(messages))
       /\ TruncatedTo(fitted[Len(fitted)].content,
                      Trailing(messages).content,
                      IF HasAnchor(messages)
                        THEN Max(0, maxChars - AnchorLen(messages))
                        ELSE maxChars)

C10_Witness ==
  /\ Called
  /\ HasAnchor(messages)
  /\ Len(messages) >= 3
  /\ AnchorLen(messages) + Len(Trailing(messages).content) > maxChars
  /\ maxChars - AnchorLen(messages) >= 1
  /\ Len(fitted) = 2
  /\ fitted[2].content = SubSeq(Trailing(messages).content, 1,
                                maxChars - AnchorLen(messages) - 1)
                           \o <<Ellipsis>>

\* C11 (as stated): when anchor plus trailing exceed the budget the trailing
\* message is kept whole and the anchor is cut to
\* max(0, maxChars - len(trailing)) characters.
C11_AnchorTruncated ==
  (Called /\ HasAnchor(messages) /\ Len(messages) >= 2
     /\ AnchorLen(messages) + Len(Trailing(messages).content) > maxChars)
    => /\ fitted[Len(fitted)] = Trailing(messages)
       /\ Len(fitted[1].content)
            = Max(0, maxChars - Len(Trailing(messages).content))

\* C11 (amended): when anchor plus trailing exceed the budget the anchor is
\* kept whole and the trailing message is cut to
\* max(0, maxChars - len(anchor)) characters; an anchor longer than the
\* budget leaves the trailing message with empty content.
C11_TrailingTruncated ==
  (Called /\ HasAnchor(messages) /\ Len(messages) >= 2
     /\ AnchorLen(messages) + Len(Trailing(messages).content) > maxChars)
    => LET room == maxChars - AnchorLen(messages)
           last == Trailing(messages)
       IN fitted = << messages[1],
                      [role |-> last.role,
                       content |-> IF room <= 0 THEN <<>>
                                   ELSE SubSeq(last.content, 1, room - 1)
                                          \o <<Ellipsis>>] >>

C11_Witness ==
  /\ Called
  /\ Len(messages) = 2
  /\ HasAnchor(messages)
  /\ Trailing(messages).role = "user"
  /\ AnchorLen(messages) >= maxChars
  /\ maxChars > Len(Trailing(messages).content)
  /\ Len(Trailing(messages).content) >= 1
  /\ fitted = <<messages[1], [role |-> "user", content |-> <<>>]>>

\* C12: an input of exactly one message is counted once: the output holds
\* one message and its size is the length of that one content, also for a
\* single system message.
C12_SingleMessageCountedOnce ==
  (Called /\ Len(messages) = 1)
    => /\ Len(fitted) = 1
       /\ sizeOf(fitted) <= Len(messages[1].content)

\* C13 (as stated): with maxChars <= 0 every message of the output has empty
\* content.
C13_AllEmptyAtZeroBudget ==
  (Called /\ maxChars <= 0)
    => \A i \in 1..Len(fitted) : fitted[i].content = <<>>

\* C13 (amended): with maxChars <= 0 every message of the output other than
\* the system anchor has empty content; the anchor keeps its content.
C13_AllButAnchorEmptyAtZeroBudget ==
  (Called /\ maxChars <= 0)
    => /\ \A i \in 1..Len(fitted) :
            (i = 1 /\ HasAnchor(messages)) \/ fitted[i].content = <<>>
       /\ HasAnchor(messages) => fitted[1].content = messages[1].content

C13_Witness ==
  /\ Called
  /\ maxChars = 0
  /\ HasAnchor(messages)
  /\ Len(messages) = 3
  /\ \A i \in 1..3 : Len(messages[i].content) >= 1
  /\ fitted = <<messages[1], [role |-> messages[3].role, content |-> <<>>]>>

\* C14: truncateString(s, n) returns s unchanged when len(s) <= n and n >= 1,
\* the first n-1 characters of s followed by one ellipsis (n characters in
\* all) when len(s) > n >= 1, and the empty string when n <= 0; the result
\* never has more than max(0, n) characters.
C14_TruncateStringContract ==
  (tpc = "done")
    => /\ (tmax >= 1 /\ Len(tstr) <= tmax) => tout = tstr
       /\ (tmax >= 1 /\ Len(tstr) > tmax)
            => /\ tout = SubSeq(tstr, 1, tmax - 1) \o <<Ellipsis>>
               /\ Len(tout) = tmax
       /\ (tmax <= 0) => tout = <<>>
       /\ Len(tout) <= Max(0, tmax)

C14_Witness ==
  /\ tpc = "done"
  /\ tmax = 2
  /\ Len(tstr) = 3
  /\ tstr[1] = "a"
  /\ tout = <<"a", Ellipsis>>

\* Vocabulary of the scan properties.
BaseSize(ms) == AnchorLen(ms) + Len(Trailing(ms).content)

Visited == scanAccepted \cup scanSkipped

RECURSIVE SumLen(_, _)
SumLen(ms, S) ==
  IF S = {} THEN 0
  ELSE LET j == CHOOSE x \in S : TRUE
       IN Len(ms[j].content) + SumLen(ms, S \ {j})

\* C15 (as stated): whenever a middle message of the input is absent from
\* the output, adding its content length to the output's total would exceed
\* maxChars.
C15_AbsentWouldExceed ==
  (spc = "done")
    => \A j \in MiddleIn(messages) \ scanAccepted :
         sizeOf(scanResult) + Len(messages[j].content) > maxChars

\* C15 (amended): whenever a middle message is absent from the output,
\* adding its content length to the output's total would exceed maxChars,
\* or anchor plus trailing alone exceed maxChars and the message is empty.
C15_AbsentWouldExceedOrOverBudget ==
  (spc = "done")
    => \A j \in MiddleIn(messages) \ scanAccepted :
         \/ sizeOf(scanResult) + Len(messages[j].content) > maxChars
         \/ /\ BaseSize(messages) > maxChars
            /\ messages[j].content = <<>>

C15_Witness ==
  /\ spc = "done"
  /\ BaseSize(messages) <= maxChars
  /\ sizeOf(scanResult) < maxChars
  /\ \E j \in scanSkipped :
       /\ Len(messages[j].content) = 2
       /\ sizeOf(scanResult) + 2 > maxChars

\* C16: the scan visits every middle message from newest to oldest and does
\* not stop at a message that does not fit: at every moment the visited
\* messages are exactly those newer than the current one, and a visited
\* message was accepted exactly when anchor, trailing, the accepted newer
\* messages and itself were together <= maxChars.
C16_ScanVisitsAllNewestFirst ==
  (spc \in {"loop", "done"} /\ BaseSize(messages) <= maxChars)
    => /\ Visited = { j \in MiddleIn(messages) :
                        j > scanI + (IF HasAnchor(messages) THEN 1 ELSE 0) }
       /\ \A j \in Visited :
            j \in scanAccepted
              <=> BaseSize(messages) + Len(messages[j].content)
                    + SumLen(messages, { k \in scanAccepted : k > j })
                    <= maxChars

C16_Witness ==
  /\ spc = "done"
  /\ \E j \in scanAccepted : \E k \in scanSkipped :
       /\ j < k
       /\ Len(messages[j].content) >= 1
  /\ Len(scanResult) = Cardinality(scanAccepted)
                         + (IF HasAnchor(messages) THEN 2 ELSE 1)


\* ------------------------------------------------------------------------
\* Vocabulary of the poller properties: how a settled retrieve fetch is
\* classified, stated on the response itself.
\* ------------------------------------------------------------------------
ProcessingLabels == {"PROCESSING", "QUEUED", "PENDING", "STARTING", "RUNNING",
                     "IN_PROGRESS"}

FailureLabels == {"FAILED", "ERROR", "CANCELED", "CANCELLED"}

Settled(r) == r # NoRetrieveResponse

TransportFailure(r) == Settled(r) /\ (r.threw \/ ~r.ok)

JsonResponse(r) == Settled(r) /\ ~r.threw /\ r.ok /\ IsJsonContentType(r.ct)

ReportsProcessing(r) ==
  JsonResponse(r) /\ toUpperCase(r.status.str) \in ProcessingLabels

ReportsFailure(r) ==
  JsonResponse(r) /\ toUpperCase(r.status.str) \in FailureLabels

HasUsableUrl(r) ==
  JsonResponse(r) /\ "https://x/y.mp4" \in {r.video_url.str, r.media_url.str}

BinaryPayload(r) == Settled(r) /\ ~r.threw /\ r.ok /\ ~IsJsonContentType(r.ct)

CompletedWithUrl(r) == HasUsableUrl(r) /\ ~ReportsProcessing(r)

TerminalResponse(r) ==
  \/ BinaryPayload(r)
  \/ CompletedWithUrl(r)
  \/ (ReportsFailure(r) /\ ~HasUsableUrl(r))

\* C5: a retrieval classified as terminal ends the loop with that outcome
\* and is the last retrieval call: after k processing responses and a
\* terminal one, exactly k+1 retrieval calls have been made.
C5_TerminalEndsPolling ==
  TerminalResponse(lastRetrieve) =>
    /\ vpc = "done"
    /\ retrieveCalls = processingSeen + 1
    /\ BinaryPayload(lastRetrieve) => reply.kind = "videoBytes"
    /\ CompletedWithUrl(lastRetrieve) => reply.kind = "videoUrl"
    /\ (ReportsFailure(lastRetrieve) /\ ~HasUsableUrl(lastRetrieve))
         => reply.kind = "Venice reported terminal failure"

C5_Witness ==
  /\ vpc = "done"
  /\ mode = "queue"
  /\ processingSeen = 2
  /\ retrieveCalls = 3
  /\ CompletedWithUrl(lastRetrieve)
  /\ reply = Reply(200, "videoUrl", queueId, "https://x/y.mp4")

\* C6: when every retrieval made before the deadline reported processing,
\* the invocation returns status PROCESSING with HTTP 202 and the queue_id
\* it was polling.
C6_DeadlineCarriesQueueId ==
  (vpc = "done" /\ retrieveCalls >= 1 /\ retrieveCalls = processingSeen
     /\ ReportsProcessing(lastRetrieve))
    => /\ reply.status = 202
       /\ reply.kind = "PROCESSING"
       /\ \A sent \in retrieveSent : sent[2] = reply.queue_id
       /\ now - started >= maxWaitMs

C6_Witness ==
  /\ vpc = "done"
  /\ mode = "poll"
  /\ retrieveCalls = processingSeen
  /\ retrieveCalls >= 7
  /\ reply = Reply(202, "PROCESSING", "job1", "")
  /\ retrieveSent = {<<DefaultModel, "job1">>}

\* C7: a retrieval whose fetch throws or resolves with a non-2xx status ends
\* the invocation at once with a retrieval error: no sleep and no further
\* retrieval call follows it.
C7_TransportFailureAborts ==
  TransportFailure(lastRetrieve) =>
    /\ vpc = "done"
    /\ reply.status = 502
    /\ reply.kind = (IF lastRetrieve.threw THEN "Fetch to Venice retrieve threw"
                     ELSE "Venice retrieve failed")
    /\ reply.queue_id = queueId
    /\ retrieveCalls = processingSeen + 1
    /\ sleeps = processingSeen

C7_Witness ==
  /\ vpc = "done"
  /\ lastRetrieve # NoRetrieveResponse
  /\ ~lastRetrieve.threw
  /\ ~lastRetrieve.ok
  /\ retrieveCalls = 3
  /\ sleeps = 2
  /\ reply.kind = "Venice retrieve failed"

\* C8: when the queue call fails (throws, non-2xx, or no queue_id in the
\* response) the handler returns a submission error; the queue call was
\* made once and no retrieval call is issued for the request.
QueueFailure(q) ==
  /\ q # NoQueueResponse
  /\ (q.threw \/ ~q.ok \/ q.queue_id = Undefined)

C8_QueueFailureAborts ==
  QueueFailure(lastQueue) =>
    /\ vpc = "done"
    /\ reply.status = 502
    /\ reply.kind \in {"Fetch to Venice queue threw", "Venice queue failed",
                       "Venice queue response missing queue_id"}
    /\ queueCalls = 1
    /\ retrieveCalls = 0
    /\ retrieveSent = {}

C8_Witness ==
  /\ vpc = "done"
  /\ lastQueue # NoQueueResponse
  /\ lastQueue.ok
  /\ lastQueue.queue_id = Undefined
  /\ queueCalls = 1
  /\ reply.kind = "Venice queue response missing queue_id"

\* ------------------------------------------------------------------------
\* Timing of the polling loop
\* ------------------------------------------------------------------------
DeadlineOutcome == vpc = "done" /\ reply.status = 202

FloorOfWaitOverPoll == maxWaitMs \div pollEveryMs

\* time spent inside the retrieve fetches of the invocation
FetchTime == (now - started) - sleeps * pollEveryMs

C18_OneRetrieveInFlight ==
  /\ [](inFlight \in {0, 1})
  /\ [][(retrieveCalls' = retrieveCalls + 1)
          => /\ inFlight = 0
             /\ processingSeen = retrieveCalls
             /\ (retrieveCalls >= 1 => ReportsProcessing(lastRetrieve))
             /\ lastCallAt' >= lastCallAt]_vars

C18_Witness ==
  /\ vpc = "retrieving"
  /\ inFlight = 1
  /\ retrieveCalls = 3
  /\ processingSeen = 2

\* C19: two consecutive retrieval calls of one invocation are separated by
\* at least pollEveryMs.
C19_CallsSeparatedByPollInterval ==
  [][(retrieveCalls' = retrieveCalls + 1 /\ retrieveCalls >= 1)
       => lastCallAt' - lastCallAt >= pollEveryMs]_vars

C19_Witness ==
  /\ vpc = "retrieving"
  /\ retrieveCalls = 2
  /\ lastCallAt - started = pollEveryMs

\* C20: every invocation of retrieveUntilDone starts its deadline clock at
\* the moment it is entered and returns the deadline outcome only when
\* maxWaitMs have passed on that clock, also when it resumes a job whose
\* previous invocation ran into the deadline; between invocations nothing
\* of the clock is kept.
C20_FreshDeadlineClock ==
  /\ [][(vpc \in {"received", "queueing"} /\ vpc' = "loop")
          => started' = now']_vars
  /\ [](DeadlineOutcome
          => /\ now - started >= maxWaitMs
             /\ lastCallAt - started < maxWaitMs
             /\ retrieveCalls >= 1)
  /\ [](vpc = "idle" => started = 0 /\ retrieveCalls = 0 /\ sleeps = 0)

C20_Witness ==
  /\ DeadlineOutcome
  /\ prevDeadline
  /\ mode = "poll"
  /\ started >= maxWaitMs
  /\ FetchTime = 0
  /\ retrieveCalls = FloorOfWaitOverPoll + 1

\* ------------------------------------------------------------------------
\* Classification of a settled retrieve response
\* ------------------------------------------------------------------------
\* the MIME type a content-type header declares: the part before ";"
DeclaredMime(ct) ==
  CASE ct = "video/webm; codecs=vp9" -> "video/webm"
    [] OTHER -> ct

DeclaresVideo(ct) == ct = "video/webm; codecs=vp9"

\* C21: for a JSON retrieve response a recognized failure status always
\* yields the failure outcome, and a usable URL yields the URL outcome only
\* when the status is neither a failure nor a processing status.
C21_FailureStatusYieldsFailed ==
  (vpc = "done" /\ JsonResponse(lastRetrieve))
    => /\ ReportsFailure(lastRetrieve)
            => reply = Reply(502, "Venice reported terminal failure",
                             queueId, "")
       /\ reply.kind = "videoUrl"
            => ~ReportsFailure(lastRetrieve) /\ ~ReportsProcessing(lastRetrieve)

\* C22 (as stated): a 2xx retrieve response whose content type is not JSON
\* ends the loop at once with a 200 response whose MIME type is the declared
\* one, or video/mp4 when none is declared.
C22_PayloadKeepsDeclaredMime ==
  BinaryPayload(lastRetrieve)
    => /\ vpc = "done"
       /\ retrieveCalls = processingSeen + 1
       /\ reply.status = 200
       /\ reply.kind = "videoBytes"
       /\ reply.extra = IF lastRetrieve.ct = "" THEN "video/mp4"
                        ELSE DeclaredMime(lastRetrieve.ct)

\* C22 (amended): a 2xx retrieve response whose content type is not JSON
\* ends the loop at once with a 200 response whose MIME type is the declared
\* one when that is a video type, and video/mp4 otherwise.
C22_PayloadMimeVideoOrDefault ==
  BinaryPayload(lastRetrieve)
    => /\ vpc = "done"
       /\ retrieveCalls = processingSeen + 1
       /\ reply.status = 200
       /\ reply.kind = "videoBytes"
       /\ reply.extra = IF DeclaresVideo(lastRetrieve.ct)
                          THEN DeclaredMime(lastRetrieve.ct)
                        ELSE "video/mp4"

C22_Witness ==
  /\ vpc = "done"
  /\ processingSeen >= 1
  /\ lastRetrieve.ok
  /\ lastRetrieve.ct = "video/webm; codecs=vp9"
  /\ reply = Reply(200, "videoBytes", "", "video/webm")

\* ------------------------------------------------------------------------
\* Inbound requests: input errors and the two modes
\* ------------------------------------------------------------------------
ResumeRequest(b) == b.queue_id.type = "string" /\ trim(b.queue_id.str) # ""

SubmissionRequest(b) == b # NoRequest /\ ~ResumeRequest(b)

UnsupportedDuration(b) ==
  b.duration.type # "undefined" /\ trim(b.duration.str) \notin {"5", "10"}

NoImage(b) ==
  /\ ~(b.image.type = "string" /\ trim(b.image.str) # "")
  /\ ~(b.image_url.type = "string" /\ trim(b.image_url.str) # "")

InputError(b) == SubmissionRequest(b) /\ (UnsupportedDuration(b) \/ NoImage(b))

NoNetworkCall == queueCalls = 0 /\ retrieveCalls = 0 /\ inFlight = 0

\* C23 (as stated): a submission request with an input error is answered
\* with 400 in the step that handles it, and no queue or retrieve call is
\* made for it.
C23_InputErrorRejectedWith400 ==
  [][(vpc = "received" /\ InputError(body))
       => (vpc' = "done" /\ reply'.status = 400 /\ NoNetworkCall')]_vars

\* C23 (amended): a submission request with an input error is answered
\* without any queue or retrieve call, with 400 when the API key is
\* configured and with 500 when it is not.
C23_InputErrorRejectedBeforeNetwork ==
  [][(vpc = "received" /\ InputError(body))
       => /\ vpc' = "done"
          /\ NoNetworkCall'
          /\ reply'.status = IF body.hasKey THEN 400 ELSE 500]_vars

C23_Witness ==
  /\ vpc = "done"
  /\ requests = 2
  /\ reply = Reply(400, "Unsupported duration. Supported: 5, 10", "", "")
  /\ NoNetworkCall

QueueSucceeded(q) ==
  /\ q # NoQueueResponse
  /\ ~q.threw
  /\ q.ok
  /\ q.queue_id.type = "string"
  /\ q.queue_id.str # ""

Polling == vpc \in {"loop", "retrieving", "sleeping"} \/ retrieveCalls >= 1

\* C24: a submit-and-await request makes exactly one queue call and polls
\* only after that call has succeeded with a queue_id; a resume request
\* makes no queue call.
C24_OneSubmissionThenPoll ==
  /\ queueCalls <= 1
  /\ (mode = "queue") => queueCalls = 1
  /\ (mode = "queue" /\ Polling) => QueueSucceeded(lastQueue)
  /\ (mode = "poll") => (queueCalls = 0 /\ lastQueue = NoQueueResponse)
  /\ Polling => mode \in {"queue", "poll"}

C24_Witness ==
  /\ mode = "queue"
  /\ queueCalls = 1
  /\ retrieveCalls = 2
  /\ lastQueue.queue_id = JsString("job2")
  /\ vpc = "retrieving"

\* ------------------------------------------------------------------------
\* The scan against a scan that stops at the first message that does not fit
\* ------------------------------------------------------------------------
\* positions accepted although a newer message had been skipped before
AcceptedAfterSkip == { j \in scanAccepted : \E k \in scanSkipped : j < k }

\* the newest middle message does not fit next to anchor and trailing, the
\* one before it does
NewestTooLongOlderFits(ms, budget) ==
  /\ Len(MiddleOf(ms)) >= 2
  /\ BaseSize(ms) <= budget
  /\ BaseSize(ms) + Len(ms[Len(ms) - 1].content) > budget
  /\ BaseSize(ms) + Len(ms[Len(ms) - 2].content) <= budget

C28_AcceptedAfterSkipIsShorter ==
  (spc \in {"loop", "done"})
    => \A i \in scanSkipped : \A j \in scanAccepted :
         (j < i) => Len(messages[j].content) < Len(messages[i].content)

C28_Witness ==
  /\ spc = "done"
  /\ \E i \in scanSkipped : \E j \in scanAccepted :
       /\ j < i
       /\ Len(messages[i].content) = 2
       /\ Len(messages[j].content) = 1
       /\ \E n \in scanAccepted : n > i

\* ------------------------------------------------------------------------
\* Termination of retrieveUntilDone
\* ------------------------------------------------------------------------
Outcomes ==
  {"videoUrl", "videoBytes", "Venice reported terminal failure",
   "Venice retrieve returned unexpected JSON", "Venice retrieve failed",
   "Fetch to Venice retrieve threw", "PROCESSING"}

\* C26: when every fetch settles and every timer fires, an invocation of
\* retrieveUntilDone returns, with one of the outcomes and only one: a
\* response once given is not replaced.
C26_PollerTerminates ==
  /\ <>(vpc = "done")
  /\ [](vpc = "done" <=> reply # NoReply)
  /\ [](vpc = "done" => reply.kind \in Outcomes)
  /\ [][reply # NoReply => reply' = reply]_vars

C26_Witness ==
  /\ vpc = "done"
  /\ reply = Reply(202, "PROCESSING", queueId, "")
  /\ now - started > maxWaitMs
  /\ retrieveCalls = 10
  /\ inFlight = 0

\* ------------------------------------------------------------------------
\* The chat handler and the payment
\* ------------------------------------------------------------------------
UnpaidUncensored(b) ==
  b.ok /\ b.tier = "uncensored" /\ b.paymentStatus # "paid"

\* C27: no call of callVeniceChat is made for a request of tier uncensored
\* whose paymentStatus is not "paid", init requests included.
C27_NoVeniceCallWithoutPayment ==
  (cpc # "off" /\ UnpaidUncensored(cbody)) => veniceCalls = 0

\* C30: the reply of every 200 response of the imagechat handler has at most
\* MAX_REPLY_CHARS (600) characters, also after the probability gate put a
\* tease line into it.
C30_ReplyWithinLimit ==
  (ipc = "done" /\ iresp.status = 200)
    => Len(iresp.reply) <= IMAGE_MAX_REPLY_CHARS

\* C29: every retrieval issued by one invocation of the poller carries the
\* model and the queue_id the poller was entered with, so all retrievals of
\* the invocation carry the same pair; after a submission that queue_id is
\* the one the queue call returned and that model is the one the queue call
\* sent.
C29_RetrievalsCarrySameJob ==
  /\ \A sent \in retrieveSent : sent = <<model, queueId>>
  /\ Cardinality(retrieveSent) <= 1
  /\ (mode = "queue" /\ retrieveSent # {})
       => /\ queueCalls = 1
          /\ lastQueue.queue_id # Undefined
          /\ queueId = lastQueue.queue_id.str
          /\ model = queueSent

C29_Witness ==
  /\ mode = "queue"
  /\ retrieveCalls >= 2
  /\ queueSent = "m1"
  /\ lastQueue.queue_id = JsString("job2")
  /\ retrieveSent = {<<"m1", "job2">>}

============================================================================
